---- MODULE Spec2Model ----
(***************************************************************************)
(* Verification model of the narrow-phase contact-generation core of       *)
(* ncollide:                                                               *)
(*   - VoronoiSimplex2          (query/algorithms/voronoi_simplex2.rs)      *)
(*   - BallConvexPolyhedronManifoldGenerator                               *)
(*   - OneShotContactManifoldGenerator                                     *)
(* Each component has its own specification (SpecSimplex, SpecBall,        *)
(* SpecOneShot); the variables of the other components stay frozen.        *)
(***************************************************************************)
EXTENDS Integers, Sequences, FiniteSets, TLC

VARIABLES
    \* ---- VoronoiSimplex2 fields
    prev_vertices, prev_dim, prev_proj, vertices, data, proj, dim,
    \* ---- the last simplex call and its result, the number of calls so far
    sop, sret, ncalls,
    \* ---- ball-vs-polyhedron generators (indexed by flip) and the last call
    manifold, id_alloc, bret, bargs,
    \* ---- one-shot generator: its sub-detector, and of the last update the
    \* ---- calls it made on the sub-detector and its inputs
    sub_detector, ocalls, oargs

svars == <<prev_vertices, prev_dim, prev_proj, vertices, data, proj, dim>>
sobs  == <<sop, sret, ncalls>>
bvars == <<manifold, id_alloc, bret, bargs>>
ovars == <<sub_detector, ocalls, oargs>>
vars  == <<svars, sobs, bvars, ovars>>

(***************************************************************************)
(* Exact arithmetic for N: Real.  A scalar is a normalised fraction        *)
(* [n, d] with d > 0; a division by zero gives NaN as it does for floats.  *)
(***************************************************************************)
Abs(x) == IF x < 0 THEN -x ELSE x

RECURSIVE GCD(_, _)
GCD(a, b) == IF b = 0 THEN a ELSE GCD(b, a % b)

NaN == [n |-> 0, d |-> 0]

Frac(n, d) ==
    IF d = 0 THEN NaN
    ELSE LET g == GCD(Abs(n), Abs(d))
             s == IF d < 0 THEN -1 ELSE 1
         IN  [n |-> (s * n) \div g, d |-> (s * d) \div g]

Zero == Frac(0, 1)
One  == Frac(1, 1)

IsNaN(r) == r.d = 0

\* 1 - r
OneMinus(r) == IF IsNaN(r) THEN NaN ELSE Frac(r.d - r.n, r.d)

\* a + k * r for integers a, k and a scalar r
Affine(a, k, r) == IF IsNaN(r) THEN NaN ELSE Frac(a * r.d + k * r.n, r.d)

\* Integer points and vectors are pairs <<x, y>>.
Origin == <<0, 0>>
VSub(p, q) == <<p[1] - q[1], p[2] - q[2]>>
VNeg(p) == <<-p[1], -p[2]>>
Dot(u, v) == u[1] * v[1] + u[2] * v[2]
\* a point with scalar (fraction) coordinates
Exact(p) == <<Frac(p[1], 1), Frac(p[2], 1)>>
\* a + v * r
Along(a, v, r) == <<Affine(a[1], v[1], r), Affine(a[2], v[2], r)>>

(***************************************************************************)
(* Inputs of the simplex: the points and payloads a caller may pass.       *)
(***************************************************************************)
\* the payload type T is opaque to the simplex, which only stores, moves and
\* returns payloads: two distinct values tell any two slots apart
Payloads == {"d1", "d2"}

Pts == { <<0, 0>>, <<1, 0>>, <<0, 1>>, <<2, 0>>, <<0, 2>>, <<-1, -1>> }

\* closures a caller may hand to modify_pnts: exchange the coordinates, or
\* clamp them to the non-negative quadrant
Max0(x) == IF x < 0 THEN 0 ELSE x
ModifyFns == {"transpose", "clamp"}
ApplyFn(f, p) == IF f = "transpose" THEN <<p[2], p[1]>> ELSE <<Max0(p[1]), Max0(p[2])>>

Panic == [k |-> "panic"]
Unit  == [k |-> "unit"]
RBool(b)  == [k |-> "bool", b |-> b]
RPoint(p) == [k |-> "point", p |-> p]
RCoord(c) == [k |-> "coord", c |-> c]
RData(d)  == [k |-> "data", d |-> d]

(***************************************************************************)
(* Segment and Triangle closest-point routines (origin as the query point, *)
(* identity pose, solid = true).  They return the location and the point.  *)
(***************************************************************************)
OnVertex(i) == [loc |-> "OnVertex", i |-> i]
OnEdgeS(coords) == [loc |-> "OnEdge", coords |-> coords]
OnEdgeT(i, coords) == [loc |-> "OnEdge", i |-> i, coords |-> coords]
OnFace == [loc |-> "OnFace"]

Coords2(u) == [i \in 0..1 |-> IF i = 0 THEN OneMinus(u) ELSE u]

SegmentProject(a, b) ==
    LET ab == VSub(b, a)
        ap == VSub(Origin, a)
        ab_ap == Dot(ab, ap)
        sqnab == Dot(ab, ab)
    IN  IF ab_ap <= 0 THEN [location |-> OnVertex(0), point |-> Exact(a)]
        ELSE IF ab_ap >= sqnab THEN [location |-> OnVertex(1), point |-> Exact(b)]
        ELSE LET u == Frac(ab_ap, sqnab)
             IN  [location |-> OnEdgeS(Coords2(u)), point |-> Along(a, ab, u)]

TriangleProject(a, b, c) ==
    LET ab == VSub(b, a)
        ac == VSub(c, a)
        bc == VSub(c, b)
        ap == VSub(Origin, a)
        bp == VSub(Origin, b)
        cp == VSub(Origin, c)
        d1 == Dot(ab, ap)
        d2 == Dot(ac, ap)
        d3 == Dot(ab, bp)
        d4 == Dot(ac, bp)
        d5 == Dot(ab, cp)
        d6 == Dot(ac, cp)
        vc == d1 * d4 - d3 * d2
        vb == d5 * d2 - d1 * d6
        va == d3 * d6 - d5 * d4
    IN  IF d1 <= 0 /\ d2 <= 0
          THEN [location |-> OnVertex(0), point |-> Exact(a)]
        ELSE IF d3 >= 0 /\ d4 <= d3
          THEN [location |-> OnVertex(1), point |-> Exact(b)]
        ELSE IF vc <= 0 /\ d1 >= 0 /\ d3 <= 0
          THEN LET v == Frac(d1, d1 - d3)
               IN  [location |-> OnEdgeT(0, Coords2(v)), point |-> Along(a, ab, v)]
        ELSE IF d6 >= 0 /\ d5 <= d6
          THEN [location |-> OnVertex(2), point |-> Exact(c)]
        ELSE IF vb <= 0 /\ d2 >= 0 /\ d6 <= 0
          THEN LET w == Frac(d2, d2 - d6)
               IN  [location |-> OnEdgeT(2, Coords2(w)), point |-> Along(a, ac, w)]
        ELSE IF va <= 0 /\ (d4 - d3) >= 0 /\ (d5 - d6) >= 0
          THEN LET w == Frac(d4 - d3, (d4 - d3) + (d5 - d6))
               IN  [location |-> OnEdgeT(1, Coords2(w)), point |-> Along(b, bc, w)]
        ELSE [location |-> OnFace, point |-> Exact(Origin)]

(***************************************************************************)
(* VoronoiSimplex2                                                         *)
(***************************************************************************)
Array3(x, y, z) == [i \in 0..2 |-> IF i = 0 THEN x ELSE IF i = 1 THEN y ELSE z]
Array2(x, y) == [i \in 0..1 |-> IF i = 0 THEN x ELSE y]

\* [T]::swap
ArraySwap(arr, i1, i2) ==
    [k \in DOMAIN arr |-> IF k = i1 THEN arr[i2] ELSE IF k = i2 THEN arr[i1] ELSE arr[k]]

\* VoronoiSimplex2::new; the payload slots are copies of one uninitialised
\* value, which may be any bit pattern.
SimplexNew ==
    /\ prev_vertices = Array3(0, 1, 2)
    /\ prev_proj = Array2(Zero, Zero)
    /\ prev_dim = 0
    /\ vertices = Array3(Origin, Origin, Origin)
    /\ \E g \in Payloads : data = Array3(g, g, g)
    /\ proj = Array2(Zero, Zero)
    /\ dim = 0
    /\ sop = "new"
    /\ ncalls = 0
    /\ sret = Unit

\* the number of calls made on one simplex
MaxCalls == 5

\* a call is possible as long as no earlier call has panicked
Alive == sret # Panic

\* a call: Called counts it; the generators are not involved
Called ==
    /\ ncalls < MaxCalls
    /\ ncalls' = ncalls + 1
    /\ UNCHANGED <<manifold, id_alloc, bret, bargs, sub_detector, ocalls, oargs>>

\* the fields after swap(i1, i2), as a record
SwapNoData(s, i1, i2) ==
    [s EXCEPT !.vertices = ArraySwap(s.vertices, i1, i2),
              !.prev_vertices = ArraySwap(s.prev_vertices, i1, i2)]

SwapNoVertices(s, i1, i2) ==
    [s EXCEPT !.data = ArraySwap(s.data, i1, i2),
              !.prev_vertices = ArraySwap(s.prev_vertices, i1, i2)]

Swap(s, i1, i2) ==
    [s EXCEPT !.vertices = ArraySwap(s.vertices, i1, i2),
              !.data = ArraySwap(s.data, i1, i2),
              !.prev_vertices = ArraySwap(s.prev_vertices, i1, i2)]

\* Simplex::reset
Reset(pt, d) ==
    /\ Alive
    /\ Called
    /\ prev_dim' = 0
    /\ dim' = 0
    /\ vertices' = [vertices EXCEPT ![0] = pt]
    /\ data' = [data EXCEPT ![0] = d]
    /\ UNCHANGED <<prev_vertices, prev_proj, proj>>
    /\ sop' = "reset"
    /\ sret' = Unit

\* the duplicate test of add_point: for i in 0..self.dim + 1
IsDuplicateOffByOne(pt) == \E i \in 0..(dim - 1) : vertices[i] = pt

IsDuplicateFirstOnly(pt) == vertices[0] = pt

IsDuplicate(pt) == \E i \in 0..dim : vertices[i] = pt

\* Simplex::add_point.  On a simplex of dimension 2 the increment is done and
\* the store to vertices[3] then fails the array bounds check.
AddPoint(pt, d) ==
    /\ Alive
    /\ Called
    /\ prev_dim' = dim
    /\ prev_proj' = proj
    /\ prev_vertices' = Array3(0, 1, 2)
    /\ sop' = "add_point"
    /\ UNCHANGED proj
    /\ IF IsDuplicate(pt)
         THEN /\ UNCHANGED <<dim, vertices, data>>
              /\ sret' = RBool(FALSE)
         ELSE /\ dim' = dim + 1
              /\ IF dim + 1 \in DOMAIN vertices
                   THEN /\ vertices' = [vertices EXCEPT ![dim + 1] = pt]
                        /\ data' = [data EXCEPT ![dim + 1] = d]
                        /\ sret' = RBool(TRUE)
                   ELSE /\ UNCHANGED <<vertices, data>>
                        /\ sret' = Panic

\* The per-index accessors (&self): the assertion, then the array index.
proj_coord(i) ==
    IF i <= dim /\ i \in DOMAIN proj THEN RCoord(proj[i]) ELSE Panic

point(i) ==
    IF i <= dim /\ i \in DOMAIN vertices THEN RPoint(vertices[i]) ELSE Panic

data_at(i) ==
    IF i <= dim /\ i \in DOMAIN data THEN RData(data[i]) ELSE Panic

prev_proj_coord(i) ==
    IF i <= dim /\ i \in DOMAIN prev_proj THEN RCoord(prev_proj[i]) ELSE Panic

prev_point(i) ==
    IF i <= prev_dim /\ i \in DOMAIN prev_vertices
      THEN RPoint(vertices[prev_vertices[i]]) ELSE Panic

prev_data(i) ==
    IF i <= prev_dim /\ i \in DOMAIN prev_vertices
      THEN RData(data[prev_vertices[i]]) ELSE Panic

\* the fields as one record
Fields ==
    [prev_vertices |-> prev_vertices, vertices |-> vertices, data |-> data,
     proj |-> proj, dim |-> dim]

\* the reduction of project_origin_and_reduce on the fields s with the
\* location the segment/triangle routine reported
ReduceSegment(s, location) ==
    CASE location.loc = "OnVertex" /\ location.i = 0 ->
           [s EXCEPT !.proj = [s.proj EXCEPT ![0] = One], !.dim = 0]
      [] location.loc = "OnVertex" /\ location.i = 1 ->
           [Swap([s EXCEPT !.proj = [s.proj EXCEPT ![0] = One]], 0, 1) EXCEPT !.dim = 0]
      [] location.loc = "OnEdge" ->
           [s EXCEPT !.proj = location.coords]

ReduceTriangleKeepingWeightOrder(s, location) ==
    CASE location.loc = "OnVertex" ->
           [Swap(s, 0, location.i) EXCEPT !.proj = [s.proj EXCEPT ![0] = One], !.dim = 0]
      [] location.loc = "OnEdge" /\ location.i = 0 ->
           [s EXCEPT !.proj = location.coords, !.dim = 1]
      [] location.loc = "OnEdge" /\ location.i = 1 ->
           [Swap(s, 0, 2) EXCEPT !.proj = location.coords, !.dim = 1]
      [] location.loc = "OnEdge" /\ location.i = 2 ->
           [Swap(s, 1, 2) EXCEPT !.proj = location.coords, !.dim = 1]
      [] OTHER -> s

ReduceTriangle(s, location) ==
    CASE location.loc = "OnVertex" ->
           [Swap(s, 0, location.i) EXCEPT !.proj = [s.proj EXCEPT ![0] = One], !.dim = 0]
      [] location.loc = "OnEdge" /\ location.i = 0 ->
           [s EXCEPT !.proj = location.coords, !.dim = 1]
      [] location.loc = "OnEdge" /\ location.i = 1 ->
           [Swap(s, 0, 2) EXCEPT !.proj = Array2(location.coords[1], location.coords[0]),
                                 !.dim = 1]
      [] location.loc = "OnEdge" /\ location.i = 2 ->
           [Swap(s, 1, 2) EXCEPT !.proj = location.coords, !.dim = 1]
      [] OTHER -> s

\* what the closest-point routine returns for the current simplex (dim >= 1)
Projection ==
    IF dim = 1 THEN SegmentProject(vertices[0], vertices[1])
    ELSE TriangleProject(vertices[0], vertices[1], vertices[2])

ReduceResult ==
    IF dim = 0 THEN [s |-> [Fields EXCEPT !.proj = [proj EXCEPT ![0] = One]],
                     point |-> Exact(vertices[0])]
    ELSE IF dim = 1 THEN [s |-> ReduceSegment(Fields, Projection.location),
                          point |-> Projection.point]
    ELSE [s |-> ReduceTriangle(Fields, Projection.location),
          point |-> Projection.point]

\* Simplex::project_origin_and_reduce
ProjectOriginAndReduce ==
    /\ Alive
    /\ Called
    /\ LET r == ReduceResult IN
         /\ prev_vertices' = r.s.prev_vertices
         /\ vertices' = r.s.vertices
         /\ data' = r.s.data
         /\ proj' = r.s.proj
         /\ dim' = r.s.dim
         /\ sret' = RPoint(r.point)
    /\ UNCHANGED <<prev_dim, prev_proj>>
    /\ sop' = "project_origin_and_reduce"

\* Simplex::project_origin with the reduction of project_origin_and_reduce
ProjectOriginReducing ==
    /\ Alive
    /\ Called
    /\ LET r == ReduceResult IN
         /\ prev_vertices' = r.s.prev_vertices
         /\ vertices' = r.s.vertices
         /\ data' = r.s.data
         /\ proj' = r.s.proj
         /\ dim' = r.s.dim
         /\ sret' = RPoint(r.point)
    /\ UNCHANGED <<prev_dim, prev_proj>>
    /\ sop' = "project_origin"

\* Simplex::project_origin
ProjectOrigin ==
    /\ Alive
    /\ Called
    /\ UNCHANGED svars
    /\ sop' = "project_origin"
    /\ sret' = RPoint(IF dim = 0 THEN Exact(vertices[0]) ELSE Projection.point)

\* Simplex::modify_pnts
ModifyPnts(f) ==
    /\ Alive
    /\ Called
    /\ vertices' = [i \in 0..2 |-> IF i <= dim THEN ApplyFn(f, vertices[i]) ELSE vertices[i]]
    /\ UNCHANGED <<prev_vertices, prev_dim, prev_proj, data, proj, dim>>
    /\ sop' = "modify_pnts"
    /\ sret' = Unit

SimplexNext ==
    \/ \E pt \in Pts, d \in Payloads : Reset(pt, d)
    \/ \E pt \in Pts, d \in Payloads : AddPoint(pt, d)
    \/ ProjectOriginAndReduce
    \/ ProjectOrigin
    \/ \E f \in ModifyFns : ModifyPnts(f)

\* Simplex::dimension, Simplex::prev_dimension
dimension == dim
prev_dimension == prev_dim

(***************************************************************************)
(* BallConvexPolyhedronManifoldGenerator                                   *)
(* Lengths are integers in units of the machine epsilon.  Two generators   *)
(* are driven side by side: manifold[FALSE] belongs to the generator built *)
(* with flip = false, manifold[TRUE] to the one built with flip = true,    *)
(* and every step calls the first with (x, y) and the second with (y, x).  *)
(***************************************************************************)
MaxRadius == 2
MaxDist == 3
MaxMargin == 2
DefaultEpsilon == 1

Radii == 1..MaxRadius
Margins == {0, MaxMargin}

\* Shape: the capabilities as_shape::<Ball>, as_point_query, as_convex_polyhedron
BallShape(r) == [ball |-> TRUE, radius |-> r, pq |-> TRUE, cp |-> FALSE]
OtherShape(pq, cp) == [ball |-> FALSE, radius |-> 0, pq |-> pq, cp |-> cp]
BallShapes == {BallShape(r) : r \in Radii}
Polyhedron == OtherShape(TRUE, TRUE)

\* Isometry: a translation t and q quarter turns
Pose(t, q) == [t |-> t, q |-> q]
\* the poses <<pose of x, pose of y>> and the subshape ids <<id of x, id of y>>
\* a step is called with
PosePairs == {<<Pose(<<1, 0>>, 0), Pose(<<0, 1>>, 1)>>}
SubshapePairs == {<<1, 2>>}

VAdd(p, q) == <<p[1] + q[1], p[2] + q[2]>>
VScale(p, k) == <<p[1] * k, p[2] * k>>

RECURSIVE RotateBack(_, _)
RotateBack(q, p) == IF q = 0 THEN p ELSE RotateBack(q - 1, <<p[2], -p[1]>>)

\* Isometry::inverse_transform_point
InverseTransformPoint(m, p) == RotateBack(m.q, VSub(p, m.t))

FeatureFace(i) == [kind |-> "Face", id |-> i]
FeatureEdge(i) == [kind |-> "Edge", id |-> i]
FeatureVertex(i) == [kind |-> "Vertex", id |-> i]
FeatureUnknown == [kind |-> "Unknown", id |-> 0]
FeatureIds == {FeatureFace(0), FeatureEdge(0), FeatureVertex(0), FeatureUnknown}

\* what the polyhedron's point projection can answer, relative to the ball
\* center: the displacement to the projection, the classification, the feature
Displacements == {<<d, 0>> : d \in 0..MaxDist} \cup {<<0, -MaxDist>>}
Queries == [dpt : Displacements, is_inside : BOOLEAN, feature : FeatureIds]
NoQuery == [dpt |-> <<0, 0>>, is_inside |-> FALSE, feature |-> FeatureUnknown]

\* the Euclidean norm, exact on the displacements above
Norm(v) == CHOOSE n \in 0..(Abs(v[1]) + Abs(v[2])) : n * n = Dot(v, v)

\* Unit::try_new_and_get
UnitTryNewAndGet(v, min_norm) ==
    LET n == Norm(v)
    IN  IF n > min_norm
          THEN [some |-> TRUE, dir |-> <<v[1] \div n, v[2] \div n>>, norm |-> n]
          ELSE [some |-> FALSE, dir |-> <<0, 0>>, norm |-> n]

\* ConvexPolyhedron::normal_cone, generators()[0], the unit edge direction
NormalCone(f) == <<"normal_cone", f>>
FirstGenerator(cone) == <<"generator0", cone>>
EdgeDir(f) == <<"edge_dir", f>>
EmptyCone == <<"empty_cone">>

\* Contact::new
ContactNew(world1, world2, normal, depth) ==
    [world1 |-> world1, world2 |-> world2, normal |-> normal, depth |-> depth]

\* ContactKinematic: per side the local approximation and the dilation
NoApprox == [geom |-> "Unknown", feature |-> FeatureUnknown, anchor |-> Origin, aux |-> <<>>]
KinematicNew == [approx1 |-> NoApprox, approx2 |-> NoApprox, dilation1 |-> 0, dilation2 |-> 0]
Approx(geom, f, local, aux) == [geom |-> geom, feature |-> f, anchor |-> local, aux |-> aux]

SetSide(k, second, approx) ==
    IF second THEN [k EXCEPT !.approx2 = approx] ELSE [k EXCEPT !.approx1 = approx]
SetDilation(k, second, r) ==
    IF second THEN [k EXCEPT !.dilation2 = r] ELSE [k EXCEPT !.dilation1 = r]

\* ContactManifold and IdAllocator
ManifoldNew == [subshape_id1 |-> 0, subshape_id2 |-> 0, contacts |-> <<>>, cache |-> <<>>]

SeqIds(s) == {s[i].id : i \in 1..Len(s)}

\* IdAllocator::alloc: a free id
AllocId(alloc) == CHOOSE i \in 0..Cardinality(alloc) :
                      i \notin alloc /\ \A j \in 0..(i - 1) : j \in alloc

\* what the cache keeps of a contact: its id and the features it lies on
CacheEntry(c) ==
    [id |-> c.id, feature1 |-> c.kinematic.approx1.feature,
     feature2 |-> c.kinematic.approx2.feature]

\* ContactManifold::save_cache_and_clear: the contacts become the cache kept
\* for id reuse; ids of the old cache that no contact reused are released.
SaveCacheAndClear(man, alloc) ==
    [manifold |-> [man EXCEPT !.cache = [i \in 1..Len(man.contacts) |-> CacheEntry(man.contacts[i])],
                              !.contacts = <<>>],
     id_alloc |-> alloc \ (SeqIds(man.cache) \ SeqIds(man.contacts))]

SameFeatures(c, kinematic) ==
    /\ c.feature1 = kinematic.approx1.feature
    /\ c.feature2 = kinematic.approx2.feature

\* ContactManifold::push: the id of a cached contact on the same features is
\* reused, otherwise a new id is drawn.
Push(man, contact, kinematic, alloc) ==
    LET hits == {i \in 1..Len(man.cache) : SameFeatures(man.cache[i], kinematic)}
        id == IF hits # {} THEN man.cache[CHOOSE i \in hits : TRUE].id ELSE AllocId(alloc)
    IN  [manifold |-> [man EXCEPT !.contacts =
                         Append(@, [contact |-> contact, kinematic |-> kinematic, id |-> id])],
         id_alloc |-> alloc \cup {id}]

Outcome(mo, ret) == [manifold |-> mo.manifold, id_alloc |-> mo.id_alloc, ret |-> ret]

\* the kinematic information of the polyhedron side, by feature
PolyhedronApproxDroppingFeature(f2, local2) ==
    Approx("Point", FeatureUnknown, local2, NormalCone(f2))

PolyhedronApprox(f2, local2) ==
    CASE f2.kind = "Face" -> Approx("Plane", f2, local2, FirstGenerator(NormalCone(f2)))
      [] f2.kind = "Edge" -> Approx("Line", f2, local2, <<EdgeDir(f2), NormalCone(f2)>>)
      [] f2.kind = "Vertex" -> Approx("Point", f2, local2, NormalCone(f2))

\* the ball-side world point
World1Inward(ball_center, normal, radius) == VSub(ball_center, VScale(normal, radius))

World1(ball_center, normal, radius) == VAdd(ball_center, VScale(normal, radius))

\* the contact, in the orientation of the generator
AssembleContactNoNegate(world1, world2, normal, depth, flip) ==
    IF ~flip THEN ContactNew(world1, world2, normal, depth)
    ELSE ContactNew(world2, world1, normal, depth)

AssembleContactNoExchange(world1, world2, normal, depth, flip) ==
    IF ~flip THEN ContactNew(world1, world2, normal, depth)
    ELSE ContactNew(world1, world2, VNeg(normal), depth)

AssembleContact(world1, world2, normal, depth, flip) ==
    IF ~flip THEN ContactNew(world1, world2, normal, depth)
    ELSE ContactNew(world2, world1, VNeg(normal), depth)

\* the contact and kinematic of do_update, lines 76-121
Synthesize(ball_center, radius, m2, world2, f2, normal, depth, flip) ==
    LET f1 == FeatureFace(0)
        world1 == World1(ball_center, normal, radius)
        contact == AssembleContact(world1, world2, normal, depth, flip)
        k1 == SetDilation(SetSide(KinematicNew, flip, Approx("Point", f1, Origin, EmptyCone)),
                          flip, radius)
        local2 == InverseTransformPoint(m2, world2)
    IN  [contact |-> contact, kinematic |-> SetSide(k1, ~flip, PolyhedronApprox(f2, local2))]

\* the depth of do_update, by the classification of the ball center
DepthAlwaysSum(is_inside, dist, radius) == dist + radius

Depth(is_inside, dist, radius) == IF is_inside THEN dist + radius ELSE -dist + radius

\* the emission test of do_update: depth >= -prediction.linear
WithinMarginPenetratingOnly(depth, prediction) == depth >= 0

WithinMargin(depth, prediction) == depth >= -prediction

\* do_update without the call of save_cache_and_clear
DoUpdateKeepingContacts(man, alloc, m1, a, m2, b, prediction, flip, pr) ==
    IF a.ball /\ b.pq /\ b.cp
      THEN LET cleared == [manifold |-> man, id_alloc |-> alloc]
               ball_center == m1.t
               world2 == pr.point
               dpt == VSub(world2, ball_center)
               un == UnitTryNewAndGet(dpt, DefaultEpsilon)
               depth == Depth(pr.is_inside, un.norm, a.radius)
               normal == IF pr.is_inside THEN VNeg(un.dir) ELSE un.dir
           IN  IF un.some /\ WithinMargin(depth, prediction)
                 THEN IF pr.feature.kind = "Unknown"
                        THEN Outcome(cleared, "panic")
                        ELSE LET c == Synthesize(ball_center, a.radius, m2, world2,
                                                 pr.feature, normal, depth, flip)
                             IN  Outcome(Push(cleared.manifold, c.contact, c.kinematic,
                                              cleared.id_alloc), "true")
                 ELSE Outcome(cleared, "true")
      ELSE Outcome([manifold |-> man, id_alloc |-> alloc], "false")

\* do_update; pr is the answer of pq2.project_point_with_feature(m2, ball_center)
DoUpdate(man, alloc, m1, a, m2, b, prediction, flip, pr) ==
    IF a.ball /\ b.pq /\ b.cp
      THEN LET cleared == SaveCacheAndClear(man, alloc)
               ball_center == m1.t
               world2 == pr.point
               dpt == VSub(world2, ball_center)
               un == UnitTryNewAndGet(dpt, DefaultEpsilon)
               depth == Depth(pr.is_inside, un.norm, a.radius)
               normal == IF pr.is_inside THEN VNeg(un.dir) ELSE un.dir
           IN  IF un.some /\ WithinMargin(depth, prediction)
                 THEN IF pr.feature.kind = "Unknown"
                        THEN Outcome(cleared, "panic")
                        ELSE LET c == Synthesize(ball_center, a.radius, m2, world2,
                                                 pr.feature, normal, depth, flip)
                             IN  Outcome(Push(cleared.manifold, c.contact, c.kinematic,
                                              cleared.id_alloc), "true")
                 ELSE Outcome(cleared, "true")
      ELSE Outcome([manifold |-> man, id_alloc |-> alloc], "false")

\* update handing the shapes to do_update in the order it got them
UpdateUnflipped(flip, man, alloc, id1, m1, a, id2, m2, b, prediction, pr) ==
    DoUpdate([man EXCEPT !.subshape_id1 = id1, !.subshape_id2 = id2],
             alloc, m1, a, m2, b, prediction, flip, pr)

\* ContactGenerator::update of the generator built with `flip`
Update(flip, man, alloc, id1, m1, a, id2, m2, b, prediction, pr) ==
    LET man1 == [man EXCEPT !.subshape_id1 = id1, !.subshape_id2 = id2]
    IN  IF ~flip THEN DoUpdate(man1, alloc, m1, a, m2, b, prediction, FALSE, pr)
        ELSE DoUpdate(man1, alloc, m2, b, m1, a, prediction, TRUE, pr)

\* ContactGenerator::num_contacts
num_contacts(f) == Len(manifold[f].contacts)

\* BallConvexPolyhedronManifoldGenerator::new(false) and new(true)
BallNew ==
    /\ manifold = [f \in BOOLEAN |-> ManifoldNew]
    /\ id_alloc = [f \in BOOLEAN |-> {}]
    /\ bret = [f \in BOOLEAN |-> "none"]
    /\ bargs = [x |-> OtherShape(FALSE, FALSE), y |-> OtherShape(FALSE, FALSE),
                ids |-> <<0, 0>>, mx |-> Pose(<<0, 0>>, 0), my |-> Pose(<<0, 0>>, 0),
                prediction |-> 0, q |-> NoQuery]

BallAlive == \A f \in BOOLEAN : bret[f] # "panic"

\* whether do_update's shape test passes for ball side x and other side y
Matched(x, y) == x.ball /\ y.pq /\ y.cp

\* One step: update(ids[1], mx, x, ids[2], my, y) on the generator with flip =
\* false and update(ids[2], my, y, ids[1], mx, x) on the one with flip = true.
\* q is the polyhedron's answer for the ball center.
BallStep(x, y, ids, mx, my, prediction, q) ==
    LET pr == [point |-> VAdd(mx.t, q.dpt), is_inside |-> q.is_inside, feature |-> q.feature]
    IN  \E r0 \in {Update(FALSE, manifold[FALSE], id_alloc[FALSE],
                           ids[1], mx, x, ids[2], my, y, prediction, pr)},
           r1 \in {Update(TRUE, manifold[TRUE], id_alloc[TRUE],
                           ids[2], my, y, ids[1], mx, x, prediction, pr)} :
          /\ manifold' = [f \in BOOLEAN |-> IF f THEN r1.manifold ELSE r0.manifold]
          /\ id_alloc' = [f \in BOOLEAN |-> IF f THEN r1.id_alloc ELSE r0.id_alloc]
          /\ bret' = [f \in BOOLEAN |-> IF f THEN r1.ret ELSE r0.ret]
          /\ bargs' = [x |-> x, y |-> y, ids |-> ids, mx |-> mx, my |-> my,
                       prediction |-> prediction, q |-> q]
          /\ UNCHANGED <<svars, sobs, ovars>>

\* a step whose shapes pass the test of do_update
UpdateMatched ==
    /\ BallAlive
    /\ \E x \in BallShapes, ids \in SubshapePairs, mp \in PosePairs,
          prediction \in Margins, q \in Queries :
         BallStep(x, Polyhedron, ids, mp[1], mp[2], prediction, q)

\* the shape pairs that fail it: no ball first, no point query or no convex
\* polyhedron second, two balls, and the two shapes in the other order
DeclinedPairs ==
    { <<Polyhedron, Polyhedron>>, <<BallShape(1), OtherShape(FALSE, TRUE)>>,
      <<BallShape(1), OtherShape(TRUE, FALSE)>>, <<BallShape(1), BallShape(1)>>,
      <<Polyhedron, BallShape(1)>> }

\* a step whose shapes do not: margin and projection are never read
UpdateDeclined ==
    /\ BallAlive
    /\ \E xy \in DeclinedPairs, ids \in SubshapePairs, mp \in PosePairs :
         BallStep(xy[1], xy[2], ids, mp[1], mp[2], 0, NoQuery)

BallNext == UpdateMatched \/ UpdateDeclined

(***************************************************************************)
(* OneShotContactManifoldGenerator over an                                 *)
(* IncrementalContactManifoldGenerator sub-detector.  A pose is a position *)
(* and a rotation; the rotation is kept as the multiples of the            *)
(* perturbation angle turned about the axes normal x b, one per vector b   *)
(* of the basis orthogonal to the contact normal.                          *)
(***************************************************************************)
MaxProbePts == 1

OPose(pos, rot) == [pos |-> pos, rot |-> rot]
OPoses == {OPose(p, <<0, 0>>) : p \in {0, 1}}

\* the space dimensions the generator is instantiated for (Dim of LV)
SpaceDims == {2, 3}

\* orthonormal_subspace_basis: the closure runs once per vector of the
\* basis of the subspace orthogonal to the normal, as long as it returns true
BasisSize(space_dim) == space_dim - 1

\* rotation::rotated_wrt_center(m, axis), axis = [k, s]: s perturbation
\* angles about the axis of basis vector k
RotatedWrtCenter(m, axis) == [m EXCEPT !.rot[axis.k] = @ + axis.s]
AxisNeg(axis) == [axis EXCEPT !.s = -axis.s]

\* IncrementalContactManifoldGenerator::new
SubDetectorNew(space_dim) == [contacts |-> <<>>, space_dim |-> space_dim]

\* the most contacts the incremental manifold keeps
Capacity(sd) == 2 * (sd.space_dim - 1)

ContactIds(cs) == {cs[i].id : i \in 1..Len(cs)}

\* one point reported by the sub-detector for the poses `at` is merged: it is
\* appended, or when the manifold is full it takes the place of contact
\* `victim` (victim = 0: the new point is the one given up)
MergeOne(sd, at, victim) ==
    LET c == [id |-> AllocId(ContactIds(sd.contacts)), at |-> at]
    IN  IF Len(sd.contacts) < Capacity(sd)
          THEN [sd EXCEPT !.contacts = Append(@, c)]
        ELSE IF victim \in 1..Len(sd.contacts)
          THEN [sd EXCEPT !.contacts[victim] = c]
        ELSE sd

\* IncrementalContactManifoldGenerator::add_new_contacts, the sub-detector
\* reporting n points for the poses m1, m2
RECURSIVE AddNewContacts(_, _, _, _, _)
AddNewContacts(sd, m1, m2, n, victim) ==
    IF n = 0 THEN sd
    ELSE AddNewContacts(MergeOne(sd, <<m1, m2>>, victim), m1, m2, n - 1, victim)

RECURSIVE KeepAt(_, _, _)
KeepAt(cs, keep, at) ==
    IF cs = <<>> THEN <<>>
    ELSE LET rest == KeepAt(SubSeq(cs, 1, Len(cs) - 1), keep, at)
         IN  IF Len(cs) \in keep THEN Append(rest, [cs[Len(cs)] EXCEPT !.at = at]) ELSE rest

\* IncrementalContactManifoldGenerator::update_contacts: every contact is
\* recomputed for the poses m1, m2; those at the positions `keep` survive
UpdateContacts(sd, m1, m2, keep) ==
    [sd EXCEPT !.contacts = KeepAt(@, keep, <<m1, m2>>)]

\* IncrementalContactManifoldGenerator::update
SubUpdate(sd, m1, m2, keep, n, victim) ==
    AddNewContacts(UpdateContacts(sd, m1, m2, keep), m1, m2, n, victim)

Call(name, m1, m2) == [call |-> name, m1 |-> m1, m2 |-> m2]

\* the body of the closure with the second rotation applied to the pose the
\* first one produced
PerturbCumulative(r, m1, m2, k, n1, n2, victim) ==
    LET rot_axis == [k |-> k, s |-> 1]
        rot_mat1 == RotatedWrtCenter(m1, rot_axis)
        rot_mat2 == RotatedWrtCenter(rot_mat1, AxisNeg(rot_axis))
    IN  [sd |-> AddNewContacts(AddNewContacts(r.sd, rot_mat1, m2, n1, victim),
                               rot_mat2, m2, n2, victim),
         calls |-> r.calls \o <<Call("add_new_contacts", rot_mat1, m2),
                                Call("add_new_contacts", rot_mat2, m2)>>]

\* the body of the closure for basis vector k, lines 43-57: the two probes
Perturb(r, m1, m2, k, n1, n2, victim) ==
    LET rot_axis == [k |-> k, s |-> 1]
        rot_mat1 == RotatedWrtCenter(m1, rot_axis)
        rot_mat2 == RotatedWrtCenter(m1, AxisNeg(rot_axis))
    IN  [sd |-> AddNewContacts(AddNewContacts(r.sd, rot_mat1, m2, n1, victim),
                               rot_mat2, m2, n2, victim),
         calls |-> r.calls \o <<Call("add_new_contacts", rot_mat1, m2),
                                Call("add_new_contacts", rot_mat2, m2)>>]

\* the closure run for the basis vectors 1..k; pts[2k-1], pts[2k] are the
\* numbers of points the two probes of vector k report
RECURSIVE PerturbAll(_, _, _, _, _, _)
PerturbAll(r, m1, m2, k, pts, victim) ==
    IF k = 0 THEN r
    ELSE Perturb(PerturbAll(r, m1, m2, k - 1, pts, victim),
                 m1, m2, k, pts[2 * k - 1], pts[2 * k], victim)

\* the one-shot expansion with the found point added to the manifold first
ExpandKeepingFirst(sd, m1, m2, pts, victim, keep) ==
    LET r == PerturbAll([sd |-> MergeOne(sd, <<m1, m2>>, victim),
                         calls |-> <<Call("num_coll", m1, m2),
                                     Call("get_sub_collision", m1, m2)>>],
                        m1, m2, BasisSize(sd.space_dim), pts, victim)
    IN  [sd |-> UpdateContacts(r.sd, m1, m2, keep \cup {1}),
         calls |-> Append(r.calls, Call("update_contacts", m1, m2))]

\* update, lines 40-61: get_sub_collision returned Some(coll)
Expand(sd, m1, m2, pts, victim, keep) ==
    LET r == PerturbAll([sd |-> sd,
                         calls |-> <<Call("num_coll", m1, m2),
                                     Call("get_sub_collision", m1, m2)>>],
                        m1, m2, BasisSize(sd.space_dim), pts, victim)
    IN  [sd |-> UpdateContacts(r.sd, m1, m2, keep),
         calls |-> Append(r.calls, Call("update_contacts", m1, m2))]

\* the None arm running the probes all the same
NoCollisionProbing(sd, m1, m2) ==
    [sd |-> AddNewContacts(sd, RotatedWrtCenter(m1, [k |-> 1, s |-> 1]), m2, 1, 0),
     calls |-> <<Call("num_coll", m1, m2), Call("get_sub_collision", m1, m2),
                 Call("add_new_contacts", RotatedWrtCenter(m1, [k |-> 1, s |-> 1]), m2)>>]

\* update, line 62: get_sub_collision returned None
NoCollision(sd, m1, m2) ==
    [sd |-> sd, calls |-> <<Call("num_coll", m1, m2), Call("get_sub_collision", m1, m2)>>]

\* update, lines 65-68: the manifold is not empty
Incremental(sd, m1, m2, keep, n, victim) ==
    [sd |-> SubUpdate(sd, m1, m2, keep, n, victim),
     calls |-> <<Call("num_coll", m1, m2), Call("update", m1, m2)>>]

\* CollisionDetector::num_coll
num_coll == Len(sub_detector.contacts)

RECURSIVE SumTo(_, _)
SumTo(pts, k) == IF k = 0 THEN 0 ELSE pts[k] + SumTo(pts, k - 1)

NoUpdate == [m1 |-> OPose(0, <<0, 0>>), m2 |-> OPose(0, <<0, 0>>), started |-> 0,
             found |-> FALSE, probed |-> 0]

\* OneShotContactManifoldGenerator::new
OneShotNew ==
    /\ \E space_dim \in SpaceDims : sub_detector = SubDetectorNew(space_dim)
    /\ ocalls = <<>>
    /\ oargs = NoUpdate

Finish(r, m1, m2, found, probed) ==
    /\ sub_detector' = r.sd
    /\ ocalls' = r.calls
    /\ oargs' = [m1 |-> m1, m2 |-> m2, started |-> num_coll, found |-> found,
                 probed |-> probed]
    /\ UNCHANGED <<svars, sobs, bvars>>

\* CollisionDetector::update.  found: whether get_sub_collision finds a point
\* pair; pts: the points each probe reports; keep: the contacts that survive
\* the recomputation; n: the points the incremental update adds.
OneShotUpdate ==
    \E m1, m2 \in OPoses, victim \in 0..1,
       keep \in SUBSET (1..Capacity(sub_detector)) :
      IF num_coll = 0
        THEN \E found \in BOOLEAN :
               IF found
                 THEN \E pts \in [1..(2 * BasisSize(sub_detector.space_dim)) -> 0..MaxProbePts] :
                        Finish(Expand(sub_detector, m1, m2, pts, victim, keep), m1, m2, TRUE,
                               SumTo(pts, 2 * BasisSize(sub_detector.space_dim)))
                 ELSE Finish(NoCollision(sub_detector, m1, m2), m1, m2, FALSE, 0)
        ELSE \E n \in 0..MaxProbePts :
               Finish(Incremental(sub_detector, m1, m2, keep, n, victim), m1, m2, FALSE, 0)

(***************************************************************************)
(* Specifications                                                          *)
(***************************************************************************)
SimplexIdle ==
    /\ prev_vertices = Array3(0, 1, 2)
    /\ prev_proj = Array2(Zero, Zero)
    /\ prev_dim = 0
    /\ vertices = Array3(Origin, Origin, Origin)
    /\ data = Array3("d1", "d1", "d1")
    /\ proj = Array2(Zero, Zero)
    /\ dim = 0
    /\ sop = "new"
    /\ ncalls = 0
    /\ sret = Unit

OneShotIdle ==
    /\ sub_detector = SubDetectorNew(2)
    /\ ocalls = <<>>
    /\ oargs = NoUpdate

InitOneShot == SimplexIdle /\ BallNew /\ OneShotNew
SpecOneShot == InitOneShot /\ [][OneShotUpdate]_vars

InitSimplex == SimplexNew /\ BallNew /\ OneShotIdle
SpecSimplex == InitSimplex /\ [][SimplexNext]_vars

\* A caller that hands over every point with the payload belonging to it
\* (such as the support-point data the point was computed from), and that
\* only resets, adds points and reduces.
PayloadOf(pt) == IF pt[1] < pt[2] THEN "d2" ELSE "d1"

PairedNext ==
    \/ \E pt \in Pts : Reset(pt, PayloadOf(pt))
    \/ \E pt \in Pts : AddPoint(pt, PayloadOf(pt))
    \/ ProjectOriginAndReduce

SpecPaired == InitSimplex /\ [][PairedNext]_vars

InitBall == SimplexIdle /\ BallNew /\ OneShotIdle
SpecBall == InitBall /\ [][BallNext]_vars

(***************************************************************************)
(* Properties of VoronoiSimplex2, checked under SpecSimplex                *)
(***************************************************************************)
\* pt has the coordinates of one of the active vertices (slots 0..=dim)
DuplicatesActive(pt) == \E i \in 0..dim : i \in DOMAIN vertices /\ vertices[i] = pt

Min2(n) == IF n < 2 THEN n ELSE 2

\* C1: the dimension is always 0, 1 or 2, and add_point with a point that
\* duplicates no active vertex appends it with its payload, increments the
\* dimension capped at 2 and returns true, also on a simplex of dimension 2.
C1_DimensionCapped ==
    [][ /\ dim' \in 0..2
        /\ \A pt \in Pts, d \in Payloads :
             (AddPoint(pt, d) /\ ~DuplicatesActive(pt)) =>
                 /\ sret' = RBool(TRUE)
                 /\ dim' = Min2(dim + 1)
                 /\ vertices'[dim'] = pt
                 /\ data'[dim'] = d ]_vars

\* C2: add_point with a point coordinate-identical to an active vertex
\* returns false and leaves the dimension, the active vertices and their
\* payloads unchanged.
C2_DuplicateRejected ==
    [][ sop' = "add_point" =>
          \A pt \in Pts, d \in Payloads :
              (DuplicatesActive(pt) /\ AddPoint(pt, d)) =>
                  /\ sret' = RBool(FALSE)
                  /\ dim' = dim
                  /\ \A i \in 0..dim : vertices'[i] = vertices[i] /\ data'[i] = data[i] ]_vars

\* a rejected add_point on a simplex with two or more vertices
C2_Witness == sop = "add_point" /\ sret = RBool(FALSE) /\ dim >= 1

\* C3: project_origin_and_reduce on a simplex of dimension 1 or 2 whose
\* closest point is vertex i ends with dimension 0, that vertex and its payload
\* in slot 0 and proj_coord(0) = 1; when the closest point is strictly inside
\* a 2-simplex the dimension stays 2 and the vertices keep their order.
C3_ReduceToVertex ==
    [][ sop' = "project_origin_and_reduce" =>
          /\ (dim \in {1, 2} /\ Projection.location.loc = "OnVertex") =>
                 /\ dim' = 0
                 /\ vertices'[0] = vertices[Projection.location.i]
                 /\ data'[0] = data[Projection.location.i]
                 /\ proj_coord(0)' = RCoord(One)
          /\ (dim = 2 /\ Projection.location.loc = "OnFace") =>
                 /\ dim' = 2
                 /\ vertices' = vertices
                 /\ data' = data ]_vars

\* a reduction to dimension 0 that moved another vertex into slot 0
C3_Witness ==
    /\ sop = "project_origin_and_reduce"
    /\ dim = 0
    /\ prev_vertices[0] # 0
    /\ proj[0] = One

\* a reduction that found the closest point strictly inside the triangle
C3_InteriorReached ==
    sop = "project_origin_and_reduce" /\ dim = 2

\* C4: project_origin changes no field of the simplex, and two consecutive
\* calls return the identical point.
C4_ProjectOriginPure ==
    [][ sop' = "project_origin" =>
          /\ UNCHANGED svars
          /\ sop = "project_origin" => sret' = sret ]_vars

\* two project_origin calls in a row on a triangle
C4_Witness ==
    sop = "project_origin" /\ dim = 2 /\ ncalls >= 4 /\ sret.p # Exact(vertices[0])

\* C5: each per-index accessor returns a value exactly for the indices up to
\* dimension() (current data) or prev_dimension() (previous data).
C5_AccessorRanges ==
    \A i \in 0..3 :
        /\ (proj_coord(i) # Panic) <=> (i <= dimension)
        /\ (point(i) # Panic) <=> (i <= dimension)
        /\ (data_at(i) # Panic) <=> (i <= dimension)
        /\ (prev_proj_coord(i) # Panic) <=> (i <= prev_dimension)
        /\ (prev_point(i) # Panic) <=> (i <= prev_dimension)
        /\ (prev_data(i) # Panic) <=> (i <= prev_dimension)

\* the part of C5 about prev_proj_coord alone
C5_PrevProjCoordRange ==
    \A i \in 0..1 : (prev_proj_coord(i) # Panic) <=> (i <= prev_dimension)

(***************************************************************************)
(* Properties of BallConvexPolyhedronManifoldGenerator, under SpecBall     *)
(***************************************************************************)
\* the last step was an update whose shapes passed the test of do_update
LastMatched == bret[FALSE] # "none" /\ Matched(bargs.x, bargs.y)

\* the distance from the ball center to the projection in the last step
LastDist == Norm(bargs.q.dpt)

\* the last step was in the outside case
LastOutside == LastMatched /\ ~bargs.q.is_inside

\* the contacts of generator f, as a set
ContactsOf(f) == {manifold[f].contacts[i] : i \in 1..Len(manifold[f].contacts)}

\* C6 as stated: outside case with 0 <= d <= predictionMargin: the update
\* leaves exactly one contact, of depth r - d.
C6_OneContactFromZero ==
    \A f \in BOOLEAN :
        (LastOutside /\ 0 <= LastDist /\ LastDist <= bargs.prediction) =>
            /\ num_contacts(f) = 1
            /\ \A c \in ContactsOf(f) : c.contact.depth = bargs.x.radius - LastDist

\* C6 amended: outside case with epsilon < d <= predictionMargin and a
\* projection on a face, edge or vertex: the update leaves exactly one
\* contact, of depth r - d.
C6_OneContactAboveEpsilon ==
    \A f \in BOOLEAN :
        (/\ LastOutside
         /\ DefaultEpsilon < LastDist
         /\ LastDist <= bargs.prediction
         /\ bargs.q.feature # FeatureUnknown) =>
            /\ num_contacts(f) = 1
            /\ \A c \in ContactsOf(f) : c.contact.depth = bargs.x.radius - LastDist

\* an outside-case update within the margin that left a speculative contact
C6_Witness ==
    /\ LastOutside
    /\ DefaultEpsilon < LastDist
    /\ LastDist <= bargs.prediction
    /\ num_contacts(FALSE) = 1
    /\ manifold[FALSE].contacts[1].contact.depth = bargs.x.radius - LastDist
    /\ bargs.x.radius - LastDist < 0

\* the ball-side and polyhedron-side world points of a contact of generator f,
\* and its normal taken from the ball towards the polyhedron
BallSide(f, c) == IF f THEN c.contact.world2 ELSE c.contact.world1
PolyhedronSide(f, c) == IF f THEN c.contact.world1 ELSE c.contact.world2
BallNormal(f, c) == IF f THEN VNeg(c.contact.normal) ELSE c.contact.normal

\* C7 as stated: in the outside case the two world points of a contact are
\* exactly radius apart along the contact normal.
C7_PointsRadiusApart ==
    \A f \in BOOLEAN : \A c \in ContactsOf(f) :
        LastOutside =>
            Abs(Dot(VSub(BallSide(f, c), PolyhedronSide(f, c)), c.contact.normal))
                = bargs.x.radius

\* C7 amended: in the outside case the ball-side point is exactly radius from
\* the ball center along the normal, and the two world points are radius - d
\* apart along it (ball side minus polyhedron side = depth * normal).
C7_PointsDepthApart ==
    \A f \in BOOLEAN : \A c \in ContactsOf(f) :
        LastOutside =>
            /\ VSub(BallSide(f, c), bargs.mx.t) = VScale(BallNormal(f, c), bargs.x.radius)
            /\ VSub(BallSide(f, c), PolyhedronSide(f, c))
                   = VScale(BallNormal(f, c), bargs.x.radius - LastDist)
            /\ c.contact.depth = bargs.x.radius - LastDist

\* an outside-case contact whose points are not radius apart
C7_Witness ==
    /\ LastOutside
    /\ num_contacts(FALSE) = 1
    /\ num_contacts(TRUE) = 1
    /\ Abs(bargs.x.radius - LastDist) # bargs.x.radius

\* a contact with the two sides exchanged and the normal negated
MirrorKinematic(k) ==
    [approx1 |-> k.approx2, approx2 |-> k.approx1,
     dilation1 |-> k.dilation2, dilation2 |-> k.dilation1]
MirrorContact(c) ==
    [world1 |-> c.world2, world2 |-> c.world1, normal |-> VNeg(c.normal), depth |-> c.depth]

\* C8: the generator with flip = false given (x, y) and the one with flip =
\* true given (y, x) return the same, emit a contact in the same cases, and
\* the flipped contact is the unflipped one with the world points exchanged,
\* the normal negated, the same depth and the kinematic data on the other side.
C8_FlipSymmetry ==
    /\ bret[TRUE] = bret[FALSE]
    /\ num_contacts(TRUE) = num_contacts(FALSE)
    /\ \A i \in 1..num_contacts(FALSE) :
         /\ manifold[TRUE].contacts[i].contact
                = MirrorContact(manifold[FALSE].contacts[i].contact)
         /\ manifold[TRUE].contacts[i].kinematic
                = MirrorKinematic(manifold[FALSE].contacts[i].kinematic)

\* both generators hold a contact, on an edge of the polyhedron
C8_Witness ==
    /\ num_contacts(FALSE) = 1
    /\ num_contacts(TRUE) = 1
    /\ manifold[FALSE].contacts[1].kinematic.approx2.geom = "Line"
    /\ manifold[TRUE].contacts[1].kinematic.approx1.geom = "Line"
    /\ manifold[FALSE].contacts[1].contact.normal # <<0, 0>>

\* what a declined update leaves alone: contacts, cache, allocator
DeclinedFrame(f) ==
    /\ manifold'[f].contacts = manifold[f].contacts
    /\ manifold'[f].cache = manifold[f].cache
    /\ id_alloc'[f] = id_alloc[f]

\* C9 as stated: update returns true exactly when the shapes match, whether
\* or not a contact is emitted; when it returns false the contacts are left
\* as they were and no id is drawn or released.
C9_TrueIffMatched ==
    [][ \A f \in BOOLEAN :
          /\ (bret'[f] = "true") <=> Matched(bargs'.x, bargs'.y)
          /\ (bret'[f] = "false") => DeclinedFrame(f) ]_vars

\* C9 amended: update returns false exactly when the shapes do not match and
\* then leaves contacts, cache and allocator alone, rewriting only the subshape
\* ids; on matching shapes it returns true, whether or not a contact is
\* emitted, unless it aborts on an Unknown feature.
C9_FalseIffUnmatched ==
    [][ \A f \in BOOLEAN :
          /\ (bret'[f] = "false") <=> ~Matched(bargs'.x, bargs'.y)
          /\ (bret'[f] \in {"true", "panic"}) <=> Matched(bargs'.x, bargs'.y)
          /\ (bret'[f] = "panic") => bargs'.q.feature = FeatureUnknown
          /\ (bret'[f] = "false") =>
                 /\ DeclinedFrame(f)
                 /\ manifold'[f].subshape_id1 = (IF f THEN bargs'.ids[2] ELSE bargs'.ids[1])
                 /\ manifold'[f].subshape_id2 = (IF f THEN bargs'.ids[1] ELSE bargs'.ids[2]) ]_vars

\* a declined update (the shapes in the other order) that left a contact of
\* an earlier step in place
C9_Witness ==
    /\ bret[TRUE] = "false"
    /\ bargs.y.ball
    /\ num_contacts(TRUE) = 1
    /\ manifold[TRUE].subshape_id1 = bargs.ids[2]

\* a matched update that returned true without emitting a contact
C9_TrueWithoutContact ==
    LastMatched /\ bret[FALSE] = "true" /\ num_contacts(FALSE) = 0

(***************************************************************************)
(* Properties of OneShotContactManifoldGenerator, under SpecOneShot        *)
(***************************************************************************)
\* the last update started Empty and get_sub_collision found a point pair
LastExpanded == oargs.started = 0 /\ oargs.found

C10_EmptyAfterExpansion == LastExpanded /\ oargs.probed = 0 /\ num_coll = 0

(***************************************************************************)
(* Further properties of BallConvexPolyhedronManifoldGenerator, SpecBall   *)
(***************************************************************************)
\* the depth do_update computes in the last step, and the unit direction of
\* the displacement from the ball center to the projection
LastDepth == Depth(bargs.q.is_inside, LastDist, bargs.x.radius)
LastDir == UnitTryNewAndGet(bargs.q.dpt, 0).dir

\* the contact of generator f has the depth and normal of the last step
DepthAndNormal(f) ==
    \A c \in ContactsOf(f) :
        /\ c.contact.depth = LastDepth
        /\ BallNormal(f, c) = (IF bargs.q.is_inside THEN VNeg(LastDir) ELSE LastDir)

\* C11 as stated: in a matched update a contact is pushed if and only if the
\* distance is at least the epsilon threshold and depth >= -predictionMargin,
\* with depth = distance + radius and the negated direction inside, depth =
\* radius - distance and the direction outside.
C11_PushedIffAtLeastEpsilon ==
    \A f \in BOOLEAN :
        LastMatched =>
            /\ (num_contacts(f) = 1) <=>
                   (LastDist >= DefaultEpsilon /\ LastDepth >= -bargs.prediction)
            /\ DepthAndNormal(f)

\* C11 amended: a contact is pushed if and only if the distance is strictly
\* above the epsilon threshold, depth >= -predictionMargin and the feature of
\* the projection is a Face, Edge or Vertex; depth and normal as stated.
C11_PushedIffAboveEpsilon ==
    \A f \in BOOLEAN :
        LastMatched =>
            /\ (num_contacts(f) = 1) <=>
                   (/\ LastDist > DefaultEpsilon
                    /\ LastDepth >= -bargs.prediction
                    /\ bargs.q.feature # FeatureUnknown)
            /\ DepthAndNormal(f)

\* an inside-case contact, and a matched step at exactly the threshold
C11_Witness ==
    /\ LastMatched
    /\ bargs.q.is_inside
    /\ num_contacts(FALSE) = 1
    /\ manifold[FALSE].contacts[1].contact.depth = LastDist + bargs.x.radius
    /\ manifold[FALSE].contacts[1].contact.normal = VNeg(LastDir)

\* a matched step at exactly the threshold distance emitted nothing
C11_AtThreshold ==
    /\ LastMatched
    /\ LastDist = DefaultEpsilon
    /\ bargs.q.feature # FeatureUnknown
    /\ num_contacts(FALSE) = 0

\* the last step aborted
LastPanicked == \A f \in BOOLEAN : bret[f] = "panic"

\* no contact of either manifold lies on an Unknown feature of the polyhedron
NoUnknownContact ==
    \A f \in BOOLEAN : \A c \in ContactsOf(f) :
        (IF f THEN c.kinematic.approx1 ELSE c.kinematic.approx2).feature # FeatureUnknown

\* C12 as stated: whenever the projection reports Unknown in a matched update
\* the step aborts, and no manifold ever holds a contact whose polyhedron-side
\* feature is Unknown.
C12_UnknownAlwaysAborts ==
    /\ (LastMatched /\ bargs.q.feature = FeatureUnknown) => LastPanicked
    /\ NoUnknownContact

\* C12 amended: a matched update aborts exactly when the projection reports
\* Unknown and a contact is to be emitted (distance above epsilon and depth
\* >= -predictionMargin); an Unknown projection in a step that emits nothing
\* returns true; no manifold ever holds a contact on an Unknown feature.
C12_UnknownAbortsOnEmission ==
    /\ LastMatched =>
          (LastPanicked <=>
              (/\ bargs.q.feature = FeatureUnknown
               /\ LastDist > DefaultEpsilon
               /\ LastDepth >= -bargs.prediction))
    /\ (LastMatched /\ ~LastPanicked) => \A f \in BOOLEAN : bret[f] = "true"
    /\ NoUnknownContact

\* a step that aborted on an Unknown feature
C12_Witness ==
    LastMatched /\ LastPanicked /\ bargs.q.feature = FeatureUnknown /\ LastDist > DefaultEpsilon

\* a step with an Unknown feature beyond the margin that returned true
C12_UnknownReturnedTrue ==
    /\ LastMatched
    /\ bargs.q.feature = FeatureUnknown
    /\ LastDist > DefaultEpsilon
    /\ bret[FALSE] = "true"

(***************************************************************************)
(* Further properties of VoronoiSimplex2, checked under SpecSimplex        *)
(***************************************************************************)
\* the slots of the endpoints of triangle edge k (0: AB, 1: BC, 2: AC) and the
\* slot of the vertex opposite to it
EdgeEnds(k) == IF k = 0 THEN <<0, 1>> ELSE IF k = 1 THEN <<1, 2>> ELSE <<0, 2>>
Opposite(k) == IF k = 0 THEN 2 ELSE IF k = 1 THEN 0 ELSE 1

\* slot i of the next state holds the vertex and payload now in slot j
MovedTo(i, j) == vertices'[i] = vertices[j] /\ data'[i] = data[j]

\* C13: when project_origin_and_reduce on a 2-simplex finds the closest point
\* on the open edge k, the simplex becomes dimension 1, slots 0 and 1 hold the
\* two endpoints of that edge with their payloads, the vertex not on the edge
\* is dropped, and proj_coord(0), proj_coord(1) are the barycentric weights of
\* the vertices now in slots 0 and 1.
C13_EdgeReduction ==
    [][ (sop' = "project_origin_and_reduce" /\ dim = 2
           /\ Projection.location.loc = "OnEdge") =>
          LET k == Projection.location.i
              e == EdgeEnds(k)
          IN  /\ dim' = 1
              /\ \/ MovedTo(0, e[1]) /\ MovedTo(1, e[2])
                 \/ MovedTo(0, e[2]) /\ MovedTo(1, e[1])
              /\ MovedTo(2, Opposite(k))
              /\ proj'[0] = OneMinus(proj'[1])
              /\ Along(vertices'[0], VSub(vertices'[1], vertices'[0]), proj'[1])
                     = Projection.point ]_vars

\* a reduction onto edge BC: the endpoints went to slots 0 and 1 in exchanged
\* order with unequal weights
C13_Witness ==
    /\ sop = "project_origin_and_reduce"
    /\ dim = 1
    /\ prev_dim = 1
    /\ prev_vertices = Array3(2, 1, 0)
    /\ proj[0] # proj[1]
    /\ ~IsNaN(proj[0])

(***************************************************************************)
(* Further properties of OneShotContactManifoldGenerator, SpecOneShot      *)
(***************************************************************************)
\* the names of the sub-detector calls of the last update
CallNames == {ocalls[i].call : i \in 1..Len(ocalls)}

\* what the last update did, by the state it started in
ByStartState ==
    ocalls # <<>> =>
        /\ oargs.started >= 1 =>
               ocalls = <<Call("num_coll", oargs.m1, oargs.m2),
                          Call("update", oargs.m1, oargs.m2)>>
        /\ oargs.started = 0 =>
               /\ ocalls[2] = Call("get_sub_collision", oargs.m1, oargs.m2)
               /\ "update" \notin CallNames
        /\ (oargs.started = 0 /\ ~oargs.found) =>
               /\ Len(ocalls) = 2
               /\ num_coll = 0
        /\ ("add_new_contacts" \in CallNames \/ "update_contacts" \in CallNames) =>
               oargs.started = 0 /\ oargs.found

\* C14: an update that starts Populated only calls the sub-detector's update;
\* the single-point query and the probes run only in updates that start Empty,
\* and when no pair is found the manifold stays empty and no probe runs; once
\* the manifold is empty the next update is a one-shot attempt again.
C14_StateMachine ==
    [][ /\ ByStartState'
        /\ oargs'.started = num_coll
        /\ num_coll = 0 => ocalls'[2].call = "get_sub_collision"
        /\ num_coll >= 1 => ocalls'[2].call = "update" ]_vars

\* an incremental update emptied the manifold
C14_Witness ==
    /\ oargs.started >= 1
    /\ num_coll = 0
    /\ ocalls = <<Call("num_coll", oargs.m1, oargs.m2), Call("update", oargs.m1, oargs.m2)>>

\* the probes of the last update: the calls between the single-point query
\* and the final recomputation
Probes == SubSeq(ocalls, 3, Len(ocalls) - 1)

\* the order of an expansion: query at the original poses first, recomputation
\* against the original poses last, add_new_contacts in between with the
\* original pose of the second body and the first body only rotated
ExpansionOrder ==
    /\ Len(ocalls) >= 3
    /\ ocalls[1] = Call("num_coll", oargs.m1, oargs.m2)
    /\ ocalls[2] = Call("get_sub_collision", oargs.m1, oargs.m2)
    /\ ocalls[Len(ocalls)] = Call("update_contacts", oargs.m1, oargs.m2)
    /\ \A i \in 1..Len(Probes) :
         /\ Probes[i].call = "add_new_contacts"
         /\ Probes[i].m2 = oargs.m2
         /\ Probes[i].m1.pos = oargs.m1.pos

\* probes 2k-1 and 2k turn the original pose of the first body by opposite
\* angles about the axis of basis vector k
OppositePair(k) ==
    /\ Probes[2 * k - 1].m1 = RotatedWrtCenter(oargs.m1, [k |-> k, s |-> 1])
    /\ Probes[2 * k].m1 = RotatedWrtCenter(oargs.m1, [k |-> k, s |-> -1])

\* C15 as stated: query, then probes, then the recomputation last; exactly two
\* probes, of the first body only, the second the exact opposite of the first
\* applied to the original pose.
C15_ExactlyTwoProbes ==
    LastExpanded =>
        /\ ExpansionOrder
        /\ Len(Probes) = 2
        /\ OppositePair(1)

\* C15 amended: as stated, but with two probes per vector of the basis
\* orthogonal to the contact normal: 2 * (dimension of the space - 1) probes,
\* in pairs of opposite rotations of the original pose.
C15_TwoProbesPerBasisVector ==
    LastExpanded =>
        /\ ExpansionOrder
        /\ Len(Probes) = 2 * BasisSize(sub_detector.space_dim)
        /\ \A k \in 1..BasisSize(sub_detector.space_dim) : OppositePair(k)

\* an expansion in three dimensions: four probes
C15_Witness ==
    /\ LastExpanded
    /\ sub_detector.space_dim = 3
    /\ Len(Probes) = 4
    /\ Probes[4].m1.rot = <<0, -1>>

(***************************************************************************)
(* Invariants of VoronoiSimplex2, checked under SpecSimplex                *)
(***************************************************************************)
\* the active slots
Active == {i \in DOMAIN vertices : i <= dim}

\* no two active vertices have identical coordinates
NoDupActive == \A i, j \in Active : i # j => vertices[i] # vertices[j]

\* the step is a modify_pnts whose closure sends two distinct active vertices
\* to the same point
Merging ==
    /\ sop' = "modify_pnts"
    /\ \E f \in ModifyFns :
         /\ ModifyPnts(f)
         /\ \E i, j \in Active : i # j /\ ApplyFn(f, vertices[i]) = ApplyFn(f, vertices[j])

\* C16 as stated: in every reachable state no two active vertices have
\* identical coordinates, modify_pnts included.
C16_NoDuplicateVertices == NoDupActive

\* C16 amended: no step other than a modify_pnts whose closure maps two
\* distinct active vertices to the same point makes two active vertices equal.
C16_NoDuplicatesUnlessMerged ==
    [][ (NoDupActive /\ ~Merging) => NoDupActive' ]_vars

\* a modify_pnts on a triangle that kept the vertices distinct, after which
\* an add_point of one of them was rejected
C16_Witness ==
    /\ sop = "add_point"
    /\ sret = RBool(FALSE)
    /\ dim = 2
    /\ ncalls >= 4
    /\ NoDupActive

\* two active vertices coincide after a modify_pnts
C16_Merged == sop = "modify_pnts" /\ ~NoDupActive

\* an add_point step records the dimension, vertices and payloads it found
SnapshotTaken ==
    \A pt \in Pts, d \in Payloads :
        (AddPoint(pt, d) /\ sret' # Panic) =>
            /\ prev_dimension' = dimension
            /\ \A i \in 0..dim :
                 /\ prev_point(i)' = RPoint(vertices[i])
                 /\ prev_data(i)' = RData(data[i])

\* a project_origin_and_reduce after an add_point or after another
\* project_origin_and_reduce leaves what the snapshot returns as it was
SnapshotKept ==
    (sop' = "project_origin_and_reduce" /\ sop \in {"add_point", "project_origin_and_reduce"}) =>
        /\ prev_dimension' = prev_dimension
        /\ \A i \in 0..prev_dim :
             /\ prev_point(i)' = prev_point(i)
             /\ prev_data(i)' = prev_data(i)

\* after reset(p, d) the snapshot is the single vertex p
SnapshotReset ==
    \A pt \in Pts, d \in Payloads :
        Reset(pt, d) => prev_dimension' = 0 /\ prev_point(0)' = RPoint(pt)

\* C17: after an add_point followed by any number of project_origin_and_reduce
\* calls, prev_dimension(), prev_point(i) and prev_data(i) return the
\* dimension, vertices and payloads from just before that add_point, however
\* the reductions reordered the slots; after reset(p, d), prev_dimension() = 0
\* and prev_point(0) = p.
C17_PrevSnapshot == [][ SnapshotTaken /\ SnapshotKept /\ SnapshotReset ]_vars

\* the part of C17 about add_point and the reductions after it
C17_SnapshotAcrossReductions == [][ SnapshotTaken /\ SnapshotKept ]_vars

\* a reset after which prev_point(0) is not the point passed to it
C17_StaleAfterReset ==
    sop = "reset" /\ prev_dim = 0 /\ prev_point(0) # RPoint(vertices[0])

(***************************************************************************)
(* Payload pairing of VoronoiSimplex2, checked under SpecPaired            *)
(***************************************************************************)
\* every active slot holds a point with the payload passed together with it
Paired == \A i \in Active : data[i] = PayloadOf(vertices[i])

\* the permutations of the three slots
Perms3 == {f \in [0..2 -> 0..2] : \A i, j \in 0..2 : f[i] = f[j] => i = j}

\* the step only permutes the three (vertex, payload) slots
SlotsPermuted == \E f \in Perms3 : \A i \in 0..2 : MovedTo(i, f[i])

C18_UninitialisedActive ==
    sop = "add_point" /\ dim = 2 /\ ~Paired

(***************************************************************************)
(* Invariants of BallConvexPolyhedronManifoldGenerator, under SpecBall     *)
(***************************************************************************)
\* the last step is one that emits a contact
LastEmits == LastDist > DefaultEpsilon /\ LastDepth >= -bargs.prediction

\* the contact c of generator f is the one computed in the last step
ComputedInLastStep(f, c) ==
    /\ PolyhedronSide(f, c) = VAdd(bargs.mx.t, bargs.q.dpt)
    /\ BallSide(f, c) = VAdd(bargs.mx.t, VScale(BallNormal(f, c), bargs.x.radius))
    /\ c.contact.depth = LastDepth
    /\ (IF f THEN c.kinematic.approx1 ELSE c.kinematic.approx2).feature = bargs.q.feature
    /\ (IF f THEN c.kinematic.dilation2 ELSE c.kinematic.dilation1) = bargs.x.radius

\* C19: num_contacts() is always 0 or 1, and after an update that returned
\* true the manifold holds only the contact computed in that update: none when
\* the step emitted nothing.
C19_OnlyTheNewContact ==
    \A f \in BOOLEAN :
        /\ num_contacts(f) \in {0, 1}
        /\ bret[f] = "true" =>
              /\ num_contacts(f) = (IF LastEmits THEN 1 ELSE 0)
              /\ \A c \in ContactsOf(f) : ComputedInLastStep(f, c)

\* a matched step that emitted nothing and left no contact, right after a
\* step that had left one (it is still in the cache)
C19_Witness ==
    /\ LastMatched
    /\ bret[FALSE] = "true"
    /\ ~LastEmits
    /\ num_contacts(FALSE) = 0
    /\ manifold[FALSE].cache # <<>>

\* C20: every stored contact satisfies point1 - point2 = depth * normal.
C20_DepthAlongNormal ==
    \A f \in BOOLEAN : \A c \in ContactsOf(f) :
        VSub(c.contact.world1, c.contact.world2) = VScale(c.contact.normal, c.contact.depth)

\* an inside-case contact of the flipped generator
C20_Witness ==
    /\ LastMatched
    /\ bargs.q.is_inside
    /\ num_contacts(TRUE) = 1
    /\ manifold[TRUE].contacts[1].contact.normal = LastDir
    /\ manifold[TRUE].contacts[1].contact.depth = LastDist + bargs.x.radius

\* a speculative contact (negative depth) in the unflipped generator
C20_Speculative ==
    /\ LastOutside
    /\ num_contacts(FALSE) = 1
    /\ manifold[FALSE].contacts[1].contact.depth < 0

====
